---- MODULE Spec2Model ----
(***************************************************************************)
(* F1 telemetry comparison: the comparison engine (distance normalizer,    *)
(* common-axis resampler, delta-time calculator, comparison assembler) and *)
(* the React front end that requests comparisons and presents them.        *)
(*                                                                         *)
(* Times are exact rationals counted in milliseconds, distances exact      *)
(* rationals counted in metres: the floating point of the program is       *)
(* modelled by exact arithmetic, and toFixed(3) of a number of seconds is   *)
(* rounding to a whole number of milliseconds.                             *)
(***************************************************************************)
EXTENDS Integers, Sequences, FiniteSets, TLC

NULL == "null"

(***************************************************************************)
(* Bounds of the model.                                                    *)
(***************************************************************************)
\* distances of samples are whole metres in 0..MaxDist
MaxDist == 3
\* point counts are in 2..MaxPoints
MaxPoints == 3
\* elapsed times of samples, in whole milliseconds
Times == {0, 1, 2}

(***************************************************************************)
(* Exact rational arithmetic: [n |-> numerator, d |-> denominator > 0],    *)
(* always in lowest terms.                                                 *)
(***************************************************************************)
Abs(x) == IF x < 0 THEN -x ELSE x

RECURSIVE GCD(_, _)
GCD(a, b) == IF b = 0 THEN a ELSE GCD(b, a % b)

Rat(n, d) ==
  LET g == GCD(Abs(n), d)
  IN  IF n = 0 THEN [n |-> 0, d |-> 1]
      ELSE [n |-> (IF n < 0 THEN -(Abs(n) \div g) ELSE n \div g), d |-> d \div g]

RInt(k) == [n |-> k, d |-> 1]
RZero == RInt(0)
RAdd(a, b) == Rat(a.n * b.d + b.n * a.d, a.d * b.d)
RSub(a, b) == Rat(a.n * b.d - b.n * a.d, a.d * b.d)
RMul(a, b) == Rat(a.n * b.n, a.d * b.d)
\* a / b for b > 0
RDiv(a, b) == Rat(a.n * b.d, a.d * b.n)
RLt(a, b) == a.n * b.d < b.n * a.d
RLe(a, b) == a.n * b.d <= b.n * a.d
RAbs(a) == [n |-> Abs(a.n), d |-> a.d]
RMax(a, b) == IF RLt(a, b) THEN b ELSE a

(***************************************************************************)
(* Data model: LapSample and Lap.                                          *)
(***************************************************************************)
\* the channel readings a sample can carry
Signals ==
  { [speed |-> 100, throttle |-> 0, brake |-> TRUE, gear |-> 1],
    [speed |-> 300, throttle |-> 100, brake |-> FALSE, gear |-> 2] }

LapSample ==
  [distance : 0..MaxDist, time : Times, speed : {100, 300},
   throttle : {0, 100}, brake : BOOLEAN, gear : {1, 2}]

MkSample(dist, t, sig) ==
  [distance |-> dist, time |-> t, speed |-> sig.speed,
   throttle |-> sig.throttle, brake |-> sig.brake, gear |-> sig.gear]

\* Lap invariant: timestamps strictly increasing, distance non-decreasing
LapInvariant(lap) ==
  \A i \in 1..(Len(lap) - 1) :
    /\ lap[i].time < lap[i + 1].time
    /\ lap[i].distance <= lap[i + 1].distance

minDist(lap) == lap[1].distance
maxDist(lap) == lap[Len(lap)].distance
\* total lap time: the elapsed time of the lap's last sample
totalLapTime(lap) == lap[Len(lap)].time

Min(a, b) == IF a < b THEN a ELSE b

(***************************************************************************)
(* 4.1 Distance Normalizer.                                                *)
(***************************************************************************)
\* mutant: only an empty lap is refused
InsufficientData_Mut(lap) == Len(lap) < 1

\* the lap has fewer than 2 samples
InsufficientData(lap) == Len(lap) < 2

(***************************************************************************)
(* 4.2 Common-Axis Resampler.                                              *)
(***************************************************************************)
\* mutant: only a lap 2 that ends before lap 1 starts is refused
NoOverlap_Mut(L1, L2) == maxDist(L2) < minDist(L1)

\* one lap's whole range precedes the other's start
NoOverlap(L1, L2) == maxDist(L1) < minDist(L2) \/ maxDist(L2) < minDist(L1)

axisEnd(L1, L2) == Min(maxDist(L1), maxDist(L2))

\* mutant: N points that stop one step short of axisEnd
SharedAxis_Mut(L1, L2, N) ==
  [i \in 1..N |-> Rat((i - 1) * axisEnd(L1, L2), N)]

\* N evenly spaced points spanning [0, axisEnd]
SharedAxis(L1, L2, N) ==
  [i \in 1..N |-> Rat((i - 1) * axisEnd(L1, L2), N - 1)]

\* index of the last sample whose distance is <= d (0 when there is none)
LastAtOrBefore(lap, d) ==
  LET S == {i \in 1..Len(lap) : RLe(RInt(lap[i].distance), d)}
  IN  IF S = {} THEN 0 ELSE CHOOSE i \in S : \A j \in S : j <= i

\* mutant: the bracket is searched at the endpoints too, so that among
\* samples sharing the first distance the last one is returned
LinearInterp_Mut(lap, ch, d) ==
  LET n == Len(lap)
      k == LastAtOrBefore(lap, d)
  IN  IF k = 0 THEN RInt(lap[1][ch])
      ELSE IF k = n THEN RInt(lap[n][ch])
      ELSE LET a == lap[k]
               b == lap[k + 1]
               frac == RDiv(RSub(d, RInt(a.distance)),
                            RInt(b.distance - a.distance))
           IN  RAdd(RInt(a[ch]), RMul(RInt(b[ch] - a[ch]), frac))

\* linear interpolation of channel ch at distance d; no extrapolation
LinearInterp(lap, ch, d) ==
  LET n == Len(lap)
      k == LastAtOrBefore(lap, d)
  IN  IF RLe(d, RInt(lap[1].distance)) THEN RInt(lap[1][ch])
      ELSE IF RLe(RInt(lap[n].distance), d) THEN RInt(lap[n][ch])
      ELSE LET a == lap[k]
               b == lap[k + 1]
               frac == RDiv(RSub(d, RInt(a.distance)),
                            RInt(b.distance - a.distance))
           IN  RAdd(RInt(a[ch]), RMul(RInt(b[ch] - a[ch]), frac))

\* step interpolation: the value of the last sample whose distance is <= d
StepInterp(lap, ch, d) ==
  LET k == LastAtOrBefore(lap, d)
  IN  IF k = 0 THEN lap[1][ch] ELSE lap[k][ch]

ResampleLinear(lap, ch, axis) ==
  [i \in 1..Len(axis) |-> LinearInterp(lap, ch, axis[i])]

\* mutant: the last axis point is dropped
ResampleStep_Mut(lap, ch, axis) ==
  [i \in 1..(Len(axis) - 1) |-> StepInterp(lap, ch, axis[i])]

ResampleStep(lap, ch, axis) ==
  [i \in 1..Len(axis) |-> StepInterp(lap, ch, axis[i])]

\* mutant: the value of the last point strictly before d
StepResampled_Mut(axis, values, d) ==
  LET S == {i \in 1..Len(axis) : RLt(axis[i], d)}
  IN  IF S = {} THEN values[1]
      ELSE values[CHOOSE i \in S : \A j \in S : j <= i]

\* step interpolation over an already-resampled channel, whose samples are
\* (axis[i], values[i]): the value of the last one whose distance is <= d
StepResampled(axis, values, d) ==
  LET S == {i \in 1..Len(axis) : RLe(axis[i], d)}
  IN  IF S = {} THEN values[1]
      ELSE values[CHOOSE i \in S : \A j \in S : j <= i]

\* an already-resampled step channel resampled again onto its own axis
ReResampleStep(axis, values) ==
  [i \in 1..Len(axis) |-> StepResampled(axis, values, axis[i])]

(***************************************************************************)
(* 4.3 Delta-Time Calculator.                                              *)
(***************************************************************************)
\* mutant: driver 2's elapsed time is step-interpolated
DeltaAt_Mut(L1, L2, d) ==
  RSub(RInt(StepInterp(L2, "time", d)), LinearInterp(L1, "time", d))

\* delta(d) = t2(d) - t1(d), from the original elapsed-time-vs-distance series
DeltaAt(L1, L2, d) ==
  RSub(LinearInterp(L2, "time", d), LinearInterp(L1, "time", d))

DeltaTime(L1, L2, axis) ==
  [i \in 1..Len(axis) |-> DeltaAt(L1, L2, axis[i])]

(***************************************************************************)
(* 4.4 Comparison Assembler.                                               *)
(***************************************************************************)
RECURSIVE MaxAbsDiff(_, _, _)
MaxAbsDiff(s1, s2, i) ==
  IF i = 0 THEN RZero
  ELSE RMax(RAbs(RSub(s1[i], s2[i])), MaxAbsDiff(s1, s2, i - 1))

LapTimeDelta(L1, L2) == RInt(totalLapTime(L2) - totalLapTime(L1))

Assemble(L1, L2, N) ==
  LET axis == SharedAxis(L1, L2, N)
      sp1 == ResampleLinear(L1, "speed", axis)
      sp2 == ResampleLinear(L2, "speed", axis)
  IN  [ status |-> "ok",
        driver1 |-> [driver |-> "driver1", team_color |-> "color1",
                     lap_time_seconds |-> totalLapTime(L1)],
        driver2 |-> [driver |-> "driver2", team_color |-> "color2",
                     lap_time_seconds |-> totalLapTime(L2)],
        comparison_data |->
          [ distance |-> axis,
            driver1_speed |-> sp1,
            driver2_speed |-> sp2,
            driver1_throttle |-> ResampleLinear(L1, "throttle", axis),
            driver2_throttle |-> ResampleLinear(L2, "throttle", axis),
            driver1_brake |-> ResampleStep(L1, "brake", axis),
            driver2_brake |-> ResampleStep(L2, "brake", axis),
            driver1_gear |-> ResampleStep(L1, "gear", axis),
            driver2_gear |-> ResampleStep(L2, "gear", axis),
            delta_time |-> DeltaTime(L1, L2, axis) ],
        lap_time_delta |-> LapTimeDelta(L1, L2),
        max_speed_delta |-> MaxAbsDiff(sp1, sp2, N),
        data_points |-> N ]

Failure(kind) == [status |-> "error", error |-> kind]

\* no comparison requested yet
NoComparison == [status |-> "none"]

\* compareTelemetry: a complete result or a single structured error
CompareLaps(L1, L2, N) ==
  IF InsufficientData(L1) \/ InsufficientData(L2)
    THEN Failure("InsufficientDataError")
  ELSE IF NoOverlap(L1, L2) THEN Failure("NoOverlapError")
  ELSE Assemble(L1, L2, N)

(***************************************************************************)
(* Presentation of a comparison by the front end.                          *)
(***************************************************************************)
\* the flat response shape consumed by DriverComparisonPage
ToLegacy(data) ==
  [ distance |-> data.comparison_data.distance,
    speed_d1 |-> data.comparison_data.driver1_speed,
    speed_d2 |-> data.comparison_data.driver2_speed,
    gear_d1 |-> data.comparison_data.driver1_gear,
    gear_d2 |-> data.comparison_data.driver2_gear,
    throttle_d1 |-> data.comparison_data.driver1_throttle,
    throttle_d2 |-> data.comparison_data.driver2_throttle,
    brake_d1 |-> data.comparison_data.driver1_brake,
    brake_d2 |-> data.comparison_data.driver2_brake,
    delta_time |-> data.comparison_data.delta_time ]

\* x.toFixed(3) of a number of seconds, as parseFloat reads it back: the
\* nearest whole number of milliseconds, a tie rounded away from zero
toFixed3(x) ==
  LET m == (2 * Abs(x.n) + x.d) \div (2 * x.d)
  IN  IF x.n < 0 THEN -m ELSE m

\* DriverComparisonPage.renderSummary: the "Final delta t" line
renderSummary(comparisonTelemetry) ==
  LET dt == comparisonTelemetry.delta_time
      na == Len(dt) = 0
      finalDelta == IF na THEN 0 ELSE toFixed3(dt[Len(dt)])
      positive == ~na /\ finalDelta > 0
  IN  [ na |-> na,
        finalDelta |-> finalDelta,
        finalDeltaSign |-> IF positive THEN "+" ELSE "",
        word |-> IF positive THEN "slower" ELSE "faster" ]

\* TelemetryChart / buildDeltaChartData: borderColor of the delta trace
deltaBorderColor(value, driver1Color, driver2Color) ==
  IF value # RZero /\ RLt(RZero, value) THEN driver2Color ELSE driver1Color

\* TelemetryChart: the "Lap Time Delta" card
deltaCard(data) == toFixed3(data.lap_time_delta)

(***************************************************************************)
(* State.                                                                  *)
(***************************************************************************)
VARIABLES
  lap1,          \* the lap resolved for driver 1 (reference)
  lap2,          \* the lap resolved for driver 2
  comparison,    \* the outcome of compareTelemetry, NoComparison before the request
  \* Dashboard: data state
  seasons, events, sessions, drivers, telemetryData,
  \* Dashboard: selection state
  selectedYear, selectedEvent, selectedSession, selectedDriver1, selectedDriver2,
  \* Dashboard: loading state
  loadingSeasons, loadingEvents, loadingSessions, loadingDrivers, loadingTelemetry,
  \* Dashboard: error state
  error,
  mounted,       \* the mount effect has run
  inflight,      \* the requests awaiting their response, one per slot
  \* useF1Data: the state of each hook, by the kind of request it makes
  hookData,      \* seasons, events, sessions, drivers, data
  hookLoading,   \* loading
  hookError,     \* error
  \* DashboardRefactored
  displayError,  \* the consolidated error
  lastAction,    \* history: what the user did last
  \* RaceSelectionForm: seasons, selectedYear, races, selectedGpName,
  \* sessions, selectedSessionType
  form

engineVars == <<lap1, lap2, comparison>>

dataVars == <<seasons, events, sessions, drivers, telemetryData>>
selectionVars ==
  <<selectedYear, selectedEvent, selectedSession, selectedDriver1, selectedDriver2>>
loadingVars ==
  <<loadingSeasons, loadingEvents, loadingSessions, loadingDrivers, loadingTelemetry>>
hookVars == <<hookData, hookLoading, hookError>>
refVars == <<hookVars, displayError, lastAction>>
dashVars ==
  <<dataVars, selectionVars, loadingVars, error, mounted, inflight, refVars,
    form>>

vars == <<engineVars, dashVars>>

(***************************************************************************)
(* Dashboard: domains.  A selection that is undefined, '' or 0 is falsy    *)
(* in every test the code makes of it and shows the placeholder option, so *)
(* the three are one value per field: 0 for the year, "" for the others.   *)
(***************************************************************************)
Years == {2008, 2020}
EventNames == {"Monza"}
SessionTypes == {"R"}
DriverNumbers == {"33", "44"}

\* at most MaxInFlight requests await their response at any time
MaxInFlight == 2
Slots == 1..MaxInFlight

Free == [kind |-> "free"]

\* a request issued through apiClient, with the arguments captured at the call
Request(kind, year, event, session, driver1, driver2) ==
  [kind |-> kind, year |-> year, event |-> event, session |-> session,
   driver1 |-> driver1, driver2 |-> driver2, attempts |-> 1]

\* the useState() defaults of Dashboard
DashboardInitial ==
  /\ seasons = {} /\ events = {} /\ sessions = {} /\ drivers = {}
  /\ telemetryData = NoComparison
  /\ selectedYear = 0 /\ selectedEvent = "" /\ selectedSession = ""
  /\ selectedDriver1 = "" /\ selectedDriver2 = ""
  /\ loadingSeasons = FALSE /\ loadingEvents = FALSE /\ loadingSessions = FALSE
  /\ loadingDrivers = FALSE /\ loadingTelemetry = FALSE
  /\ error = NULL
  /\ mounted = FALSE
  /\ inflight = [i \in Slots |-> Free]

\* the kinds of request, one per hook of useF1Data: useSeasons, useEvents,
\* useSessions, useDrivers, useTelemetryComparison
Kinds == {"seasons", "events", "sessions", "drivers", "compare"}

\* the useState() default of the data a hook holds
HookEmpty(kind) == IF kind = "compare" THEN NoComparison ELSE {}

\* the useState() defaults of RaceSelectionForm; null, '' and 0 are falsy in
\* every test the code makes and are one value per field
FormInitial ==
  form = [seasons |-> <<>>, selectedYear |-> 0, races |-> <<>>,
          selectedGpName |-> "", sessions |-> <<>>, selectedSessionType |-> ""]

\* the useState() defaults of the hooks and of DashboardRefactored
HooksInitial ==
  /\ hookData = [kind \in Kinds |-> HookEmpty(kind)]
  /\ hookLoading = [kind \in Kinds |-> FALSE]
  /\ hookError = [kind \in Kinds |-> NULL]
  /\ displayError = NULL
  /\ lastAction = "none"

(***************************************************************************)
(* The engine as a state machine: the lookup collaborator delivers the     *)
(* samples of the two laps, then one comparison request is computed.       *)
(***************************************************************************)
InitEngine ==
  /\ lap1 = <<>>
  /\ lap2 = <<>>
  /\ comparison = NoComparison
  /\ DashboardInitial
  /\ HooksInitial
  /\ FormInitial

\* the collaborator records one more sample of driver 1's lap
RecordSample1(dist, t, sig) ==
  /\ comparison = NoComparison
  /\ LapInvariant(Append(lap1, MkSample(dist, t, sig)))
  /\ lap1' = Append(lap1, MkSample(dist, t, sig))
  /\ UNCHANGED <<lap2, comparison, dashVars>>

RecordSample2(dist, t, sig) ==
  /\ comparison = NoComparison
  /\ LapInvariant(Append(lap2, MkSample(dist, t, sig)))
  /\ lap2' = Append(lap2, MkSample(dist, t, sig))
  /\ UNCHANGED <<lap1, comparison, dashVars>>

\* compareTelemetry(..., pointCount = N)
CompareTelemetry(N) ==
  /\ comparison = NoComparison
  /\ comparison' = CompareLaps(lap1, lap2, N)
  /\ UNCHANGED <<lap1, lap2, dashVars>>

NextEngine ==
  \/ \E dist \in 0..MaxDist, t \in Times, sig \in Signals :
       RecordSample1(dist, t, sig)
  \/ \E dist \in 0..MaxDist, t \in Times, sig \in Signals :
       RecordSample2(dist, t, sig)
  \/ \E N \in 2..MaxPoints : CompareTelemetry(N)

SpecEngine == InitEngine /\ [][NextEngine]_vars

(***************************************************************************)
(* Claims about the comparison engine and its presentation (SpecEngine).   *)
(***************************************************************************)
Compared == comparison.status = "ok"

\* a lap that starts its measured window at distance 0 with elapsed time 0
StartsAtZero(lap) == Len(lap) > 0 /\ lap[1].distance = 0 /\ lap[1].time = 0

\* both laps start at zero and cover some distance
WellFormed ==
  /\ StartsAtZero(lap1) /\ StartsAtZero(lap2)
  /\ maxDist(lap1) > 0 /\ maxDist(lap2) > 0

\* C1: the final lap-time delta reported for a comparison equals (total lap
\* time of L2) - (total lap time of L1), in the summary line of
\* DriverComparisonPage and in the delta card of TelemetryChart alike; it is
\* stated here for laps that start at distance 0 with elapsed time 0 and
\* cover some distance.
C1_FinalDeltaIsLapTimeDelta ==
  (Compared /\ WellFormed) =>
    /\ renderSummary(ToLegacy(comparison)).finalDelta
         = toFixed3(LapTimeDelta(lap1, lap2))
    /\ deltaCard(comparison) = toFixed3(LapTimeDelta(lap1, lap2))

\* C2: every presentation of a delta follows the sign convention: a strictly
\* positive delta is presented as driver 2 'slower' and in driver 2's colour,
\* a strictly negative delta as driver 2 'faster' and in driver 1's colour;
\* it is stated here for laps that start at distance 0 with elapsed time 0
\* and cover some distance.
C2_SignConvention ==
  (Compared /\ WellFormed) =>
    LET dt == comparison.comparison_data.delta_time
        final == dt[Len(dt)]
        word == renderSummary(ToLegacy(comparison)).word
        colour(i) == deltaBorderColor(dt[i], comparison.driver1.team_color,
                                      comparison.driver2.team_color)
    IN  /\ RLt(RZero, final) => word = "slower"
        /\ RLt(final, RZero) => word = "faster"
        /\ \A i \in 1..Len(dt) :
             /\ RLt(RZero, dt[i]) => colour(i) = comparison.driver2.team_color
             /\ RLt(dt[i], RZero) => colour(i) = comparison.driver1.team_color

\* C3: in every comparison result all arrays of comparison_data have the same
\* length, that length is data_points, and index i of every array is the
\* channel's value at distance[i].
C3_ArraysAligned ==
  Compared =>
    LET cd == comparison.comparison_data
        N == comparison.data_points
    IN  /\ \A f \in DOMAIN cd : Len(cd[f]) = N
        /\ \A i \in 1..N :
             /\ cd.driver1_speed[i] = LinearInterp(lap1, "speed", cd.distance[i])
             /\ cd.driver2_speed[i] = LinearInterp(lap2, "speed", cd.distance[i])
             /\ cd.driver1_throttle[i]
                  = LinearInterp(lap1, "throttle", cd.distance[i])
             /\ cd.driver2_throttle[i]
                  = LinearInterp(lap2, "throttle", cd.distance[i])
             /\ cd.driver1_brake[i] = StepInterp(lap1, "brake", cd.distance[i])
             /\ cd.driver2_brake[i] = StepInterp(lap2, "brake", cd.distance[i])
             /\ cd.driver1_gear[i] = StepInterp(lap1, "gear", cd.distance[i])
             /\ cd.driver2_gear[i] = StepInterp(lap2, "gear", cd.distance[i])
             /\ cd.delta_time[i] = DeltaAt(lap1, lap2, cd.distance[i])

C3_Witness ==
  /\ Compared
  /\ comparison.data_points = 3
  /\ Len(lap1) = 3 /\ Len(lap2) = 2
  /\ maxDist(lap1) # maxDist(lap2)
  /\ \E i \in 1..3 : comparison.comparison_data.driver1_brake[i]
                       # comparison.comparison_data.driver2_brake[i]

StrictlyIncreasing(axis) ==
  \A i \in 1..(Len(axis) - 1) : RLt(axis[i], axis[i + 1])

\* C4 as stated: for every point count N >= 2 the shared axis of a
\* comparison has exactly N points, is strictly increasing, starts at 0 and
\* ends at min(maxDist(L1), maxDist(L2)).
C4_AxisStrictlyIncreasing ==
  Compared =>
    LET axis == comparison.comparison_data.distance
        N == comparison.data_points
    IN  /\ Len(axis) = N
        /\ axis[1] = RZero
        /\ axis[N] = RInt(Min(maxDist(lap1), maxDist(lap2)))
        /\ StrictlyIncreasing(axis)

\* C4 amended: the shared axis has exactly N points, starts at 0 and ends at
\* min(maxDist(L1), maxDist(L2)); it is strictly increasing when that minimum
\* is positive, and consists of N zeros when it is 0.
C4_SharedAxis ==
  Compared =>
    LET axis == comparison.comparison_data.distance
        N == comparison.data_points
        last == Min(maxDist(lap1), maxDist(lap2))
    IN  /\ Len(axis) = N
        /\ N >= 2
        /\ axis[1] = RZero
        /\ axis[N] = RInt(last)
        /\ last > 0 => StrictlyIncreasing(axis)
        /\ last = 0 => \A i \in 1..N : axis[i] = RZero

C4_Witness ==
  /\ Compared
  /\ comparison.data_points = 3
  /\ maxDist(lap1) = 3 /\ maxDist(lap2) = 2
  /\ comparison.comparison_data.distance = <<RZero, RInt(1), RInt(2)>>

\* C9: comparing a lap against itself yields delta_time equal to 0 at every
\* axis point and max_speed_delta equal to 0.
C9_SelfComparison ==
  (Compared /\ lap1 = lap2) =>
    /\ \A i \in 1..comparison.data_points :
         comparison.comparison_data.delta_time[i] = RZero
    /\ comparison.max_speed_delta = RZero

C9_Witness ==
  /\ Compared
  /\ lap1 = lap2
  /\ Len(lap1) = 3
  /\ lap1[1].speed # lap1[2].speed
  /\ lap1[1].distance < lap1[2].distance
  /\ lap1[2].distance < lap1[3].distance
  /\ comparison.data_points = 3

\* C10: for two laps that both start their measured window at distance 0
\* with elapsed time 0, the first element of the delta curve is 0.
C10_DeltaStartsAtZero ==
  (Compared /\ StartsAtZero(lap1) /\ StartsAtZero(lap2)) =>
    comparison.comparison_data.delta_time[1] = RZero

C10_Witness ==
  /\ Compared
  /\ StartsAtZero(lap1) /\ StartsAtZero(lap2)
  /\ Len(lap1) = 3 /\ lap1[2].distance = 0
  /\ Len(lap2) = 2 /\ lap2[2].distance > 0
  /\ \E i \in 1..comparison.data_points :
       comparison.comparison_data.delta_time[i] # RZero


\* C11: step interpolation is idempotent at a fixed axis: each resampled
\* brake and gear channel of a comparison, resampled again onto the same
\* axis, is returned unchanged.
C11_StepIdempotent ==
  Compared =>
    LET cd == comparison.comparison_data
    IN  /\ ReResampleStep(cd.distance, cd.driver1_brake) = cd.driver1_brake
        /\ ReResampleStep(cd.distance, cd.driver2_brake) = cd.driver2_brake
        /\ ReResampleStep(cd.distance, cd.driver1_gear) = cd.driver1_gear
        /\ ReResampleStep(cd.distance, cd.driver2_gear) = cd.driver2_gear

C11_Witness ==
  /\ Compared
  /\ comparison.data_points = 3
  /\ StrictlyIncreasing(comparison.comparison_data.distance)
  /\ comparison.comparison_data.driver1_brake[1]
       # comparison.comparison_data.driver1_brake[3]
  /\ comparison.comparison_data.driver2_gear[2]
       # comparison.comparison_data.driver2_gear[3]

Answered == comparison # NoComparison

\* C12: a comparison in which either lap has fewer than 2 samples, an empty
\* lap included, fails with InsufficientDataError and produces no result.
C12_InsufficientData ==
  (Answered /\ (Len(lap1) < 2 \/ Len(lap2) < 2)) =>
    /\ comparison = Failure("InsufficientDataError")
    /\ "comparison_data" \notin DOMAIN comparison

C12_Witness ==
  /\ comparison.status = "error"
  /\ Len(lap1) = 1
  /\ Len(lap2) = 3

\* the distance ranges [minDist, maxDist] of the two laps are disjoint
RangesDisjoint ==
  \/ maxDist(lap1) < minDist(lap2)
  \/ maxDist(lap2) < minDist(lap1)

ServerSeasons == Years
ServerEvents(year) == {[year |-> year, event_name |-> e] : e \in EventNames}
ServerSessions(year, event) ==
  {[year |-> year, event |-> event, session_type |-> t] : t \in SessionTypes}
ServerDrivers(year, event, session) ==
  {[year |-> year, event |-> event, session |-> session, driver_number |-> d] :
     d \in DriverNumbers}
ServerComparison(r) ==
  [status |-> "ok", year |-> r.year, event |-> r.event, session |-> r.session,
   driver1 |-> r.driver1, driver2 |-> r.driver2]

\* the message of the Error thrown by handleApiError
TimeoutMessage == "timeout of 60000ms exceeded"
NetworkError == "Network Error"
NotLoaded == "The data you are trying to access has not been loaded yet"
NoTelemetry == "No telemetry data available"
NoLaps == "No laps found for driver"
Messages == {NetworkError, NotLoaded, NoTelemetry, NoLaps}
\* the failures other than the client's timeout, per kind of request
ServerMessages(kind) ==
  IF kind = "compare" THEN Messages ELSE {NetworkError}

\* String.prototype.includes on the messages above
includes(message, needle) ==
  <<message, needle>> \in
    { <<NetworkError, "Network Error">>, <<NotLoaded, "not been loaded">>,
      <<NoTelemetry, "No telemetry data">>, <<NoLaps, "No laps found">> }

BackendStarting == "Backend is starting up or not reachable"
SelectAllOptions == "Please select all options before comparing"
NoteBefore2011 == "Note: Telemetry data is not available for years before 2011"
NoteBefore2018 == "Note: Telemetry data for this year may be incomplete"

\* the message loadSeasons' catch block sets
loadSeasonsError(errorMessage) ==
  IF includes(errorMessage, "Network Error")
       \/ includes(errorMessage, "ERR_CONNECTION_REFUSED")
       \/ includes(errorMessage, "fetch")
  THEN BackendStarting
  ELSE errorMessage

\* the message handleCompare's catch block sets; year is the selectedYear
\* its closure captured
handleCompareError(errorMessage, year) ==
  IF includes(errorMessage, "not been loaded")
       \/ includes(errorMessage, "Session.load")
  THEN IF year # 0 /\ year < 2011
         THEN "Telemetry data is not available for year (before 2011)"
       ELSE IF year # 0 /\ year < 2018
         THEN "Telemetry data is not available for this session (2011-2017)"
       ELSE "Telemetry data could not be loaded for this session"
  ELSE IF includes(errorMessage, "No telemetry data")
  THEN IF year # 0 /\ year < 2011
         THEN "No telemetry data available for year (before 2011)"
       ELSE IF year # 0 /\ year < 2018
         THEN "Limited or no telemetry data for year (2011-2017)"
       ELSE "No telemetry data available. This session may not have telemetry"
  ELSE IF includes(errorMessage, "No laps found")
  THEN "No laps found for driver. This driver may not have participated"
  ELSE errorMessage

\* the lowest free slot, 0 when MaxInFlight requests are awaited
FreeSlot ==
  IF \E i \in Slots : inflight[i] = Free
  THEN CHOOSE i \in Slots : inflight[i] = Free /\ \A j \in 1..(i - 1) : inflight[j] # Free
  ELSE 0

\* apiClient.get(...): the request is sent and awaited
Send(r) ==
  /\ FreeSlot # 0
  /\ inflight' = [inflight EXCEPT ![FreeSlot] = r]

\* SelectionPanel is rendered
PanelShown == ~loadingSeasons \/ seasons # {} \/ error # NULL

(***************************************************************************)
(* Dashboard: the handlers.  An action is a handler together with the      *)
(* effects its state changes trigger, up to the first await.               *)
(***************************************************************************)
\* loadSeasons(), up to the await
loadSeasons ==
  /\ loadingSeasons' = TRUE
  /\ error' = NULL
  /\ Send(Request("seasons", 0, "", "", "", ""))
  /\ UNCHANGED <<dataVars, selectionVars, loadingEvents, loadingSessions,
                 loadingDrivers, loadingTelemetry, engineVars, form>>

\* useEffect(() => { loadSeasons(); }, [])
Mount ==
  /\ ~mounted
  /\ mounted' = TRUE
  /\ loadSeasons

\* the Retry Connection button, shown while error includes 'Backend is starting'
RetryConnection ==
  /\ mounted
  /\ error = BackendStarting
  /\ UNCHANGED mounted
  /\ loadSeasons

\* the note handleYearChange sets after clearing the error
yearNote(year) ==
  IF year < 2011 THEN NoteBefore2011
  ELSE IF year < 2018 THEN NoteBefore2018
  ELSE NULL

\* mutant: the selected event, session and drivers are kept
handleYearChange_Mut(year) ==
  /\ mounted /\ PanelShown /\ ~loadingSeasons
  /\ year \in seasons \cup {0}
  /\ year # selectedYear
  /\ selectedYear' = year
  /\ UNCHANGED <<selectedEvent, selectedSession, selectedDriver1,
                 selectedDriver2>>
  /\ IF year # 0
     THEN /\ loadingEvents' = TRUE
          /\ error' = NULL
          /\ events' = {}
          /\ sessions' = {}
          /\ drivers' = {}
          /\ telemetryData' = NoComparison
          /\ Send(Request("events", year, "", "", "", ""))
     ELSE /\ error' = yearNote(year)
          /\ UNCHANGED <<loadingEvents, events, sessions, drivers, telemetryData,
                         inflight>>
  /\ UNCHANGED <<seasons, loadingSeasons, loadingSessions, loadingDrivers,
                 loadingTelemetry, mounted, engineVars, form>>

\* handleYearChange(year), then the [selectedYear] effect: loadEvents(year)
\* when the year is truthy, whose setError(null) replaces the note
handleYearChange(year) ==
  /\ mounted /\ PanelShown /\ ~loadingSeasons
  /\ year \in seasons \cup {0}
  /\ year # selectedYear
  /\ selectedYear' = year
  /\ selectedEvent' = ""
  /\ selectedSession' = ""
  /\ selectedDriver1' = ""
  /\ selectedDriver2' = ""
  /\ IF year # 0
     THEN /\ loadingEvents' = TRUE
          /\ error' = NULL
          /\ events' = {}
          /\ sessions' = {}
          /\ drivers' = {}
          /\ telemetryData' = NoComparison
          /\ Send(Request("events", year, "", "", "", ""))
     ELSE /\ error' = yearNote(year)
          /\ UNCHANGED <<loadingEvents, events, sessions, drivers, telemetryData,
                         inflight>>
  /\ UNCHANGED <<seasons, loadingSeasons, loadingSessions, loadingDrivers,
                 loadingTelemetry, mounted, engineVars, form>>

\* the options of the event select besides its placeholder
eventOptions == IF loadingEvents THEN {} ELSE {e.event_name : e \in events}

\* handleEventChange(eventName), then the [selectedYear, selectedEvent]
\* effect: loadSessions(selectedYear, eventName) when both are truthy
handleEventChange(eventName) ==
  /\ mounted /\ PanelShown
  /\ selectedYear # 0
  /\ eventName \in eventOptions \cup {""}
  /\ eventName # selectedEvent
  /\ selectedEvent' = eventName
  /\ selectedSession' = ""
  /\ selectedDriver1' = ""
  /\ selectedDriver2' = ""
  /\ IF selectedYear # 0 /\ eventName # ""
     THEN /\ loadingSessions' = TRUE
          /\ error' = NULL
          /\ sessions' = {}
          /\ drivers' = {}
          /\ telemetryData' = NoComparison
          /\ Send(Request("sessions", selectedYear, eventName, "", "", ""))
     ELSE UNCHANGED <<loadingSessions, error, sessions, drivers, telemetryData,
                      inflight>>
  /\ UNCHANGED <<selectedYear, seasons, events, loadingSeasons, loadingEvents,
                 loadingDrivers, loadingTelemetry, mounted, engineVars, form>>

sessionOptions == IF loadingSessions THEN {} ELSE {x.session_type : x \in sessions}

\* handleSessionChange(sessionType), then the [selectedYear, selectedEvent,
\* selectedSession] effect: loadDrivers(...) when all three are truthy
handleSessionChange(sessionType) ==
  /\ mounted /\ PanelShown
  /\ selectedEvent # ""
  /\ sessionType \in sessionOptions \cup {""}
  /\ sessionType # selectedSession
  /\ selectedSession' = sessionType
  /\ selectedDriver1' = ""
  /\ selectedDriver2' = ""
  /\ IF selectedYear # 0 /\ selectedEvent # "" /\ sessionType # ""
     THEN /\ loadingDrivers' = TRUE
          /\ error' = NULL
          /\ drivers' = {}
          /\ telemetryData' = NoComparison
          /\ Send(Request("drivers", selectedYear, selectedEvent, sessionType,
                          "", ""))
     ELSE UNCHANGED <<loadingDrivers, error, drivers, telemetryData, inflight>>
  /\ UNCHANGED <<selectedYear, selectedEvent, seasons, events, sessions,
                 loadingSeasons, loadingEvents, loadingSessions,
                 loadingTelemetry, mounted, engineVars, form>>

\* mutant: the driver chosen in the other select is offered too
driverOptions_Mut(other) ==
  IF loadingDrivers THEN {}
  ELSE {x.driver_number : x \in drivers}

\* the options of a driver select besides its placeholder
driverOptions(other) ==
  IF loadingDrivers THEN {}
  ELSE {x.driver_number : x \in drivers} \ {other}

\* onDriver1Change = setSelectedDriver1
setSelectedDriver1(driver) ==
  /\ mounted /\ PanelShown
  /\ selectedSession # ""
  /\ driver \in driverOptions(selectedDriver2) \cup {""}
  /\ driver # selectedDriver1
  /\ selectedDriver1' = driver
  /\ UNCHANGED <<selectedYear, selectedEvent, selectedSession, selectedDriver2,
                 dataVars, loadingVars, error, mounted, inflight, engineVars, form>>

\* onDriver2Change = setSelectedDriver2
setSelectedDriver2(driver) ==
  /\ mounted /\ PanelShown
  /\ selectedSession # ""
  /\ driver \in driverOptions(selectedDriver1) \cup {""}
  /\ driver # selectedDriver2
  /\ selectedDriver2' = driver
  /\ UNCHANGED <<selectedYear, selectedEvent, selectedSession, selectedDriver1,
                 dataVars, loadingVars, error, mounted, inflight, engineVars, form>>

\* mutant: driver 2 is not looked at
canCompare_Mut ==
  /\ selectedYear # 0 /\ selectedEvent # "" /\ selectedSession # ""
  /\ selectedDriver1 # ""

\* the Compare button is enabled
canCompare ==
  /\ selectedYear # 0 /\ selectedEvent # "" /\ selectedSession # ""
  /\ selectedDriver1 # "" /\ selectedDriver2 # ""

\* mutant: the guard clears the comparison held
handleCompareCalled_Mut ==
  /\ IF selectedYear = 0 \/ selectedEvent = "" \/ selectedSession = ""
          \/ selectedDriver1 = "" \/ selectedDriver2 = ""
     THEN /\ error' = SelectAllOptions
          /\ telemetryData' = NoComparison
          /\ UNCHANGED <<loadingTelemetry, inflight>>
     ELSE /\ loadingTelemetry' = TRUE
          /\ error' = NULL
          /\ telemetryData' = NoComparison
          /\ Send(Request("compare", selectedYear, selectedEvent,
                          selectedSession, selectedDriver1, selectedDriver2))
  /\ UNCHANGED <<seasons, events, sessions, drivers, selectionVars,
                 loadingSeasons, loadingEvents, loadingSessions, loadingDrivers,
                 mounted, engineVars, form>>

\* handleCompare(), up to the await, in whatever state it is called
handleCompareCalled ==
  /\ IF selectedYear = 0 \/ selectedEvent = "" \/ selectedSession = ""
          \/ selectedDriver1 = "" \/ selectedDriver2 = ""
     THEN /\ error' = SelectAllOptions
          /\ UNCHANGED <<loadingTelemetry, telemetryData, inflight>>
     ELSE /\ loadingTelemetry' = TRUE
          /\ error' = NULL
          /\ telemetryData' = NoComparison
          /\ Send(Request("compare", selectedYear, selectedEvent,
                          selectedSession, selectedDriver1, selectedDriver2))
  /\ UNCHANGED <<seasons, events, sessions, drivers, selectionVars,
                 loadingSeasons, loadingEvents, loadingSessions, loadingDrivers,
                 mounted, engineVars, form>>

\* handleCompare(), run by a click on the enabled Compare button, up to the
\* await
handleCompare ==
  /\ mounted /\ PanelShown
  /\ canCompare
  /\ handleCompareCalled

\* handleCompare() called on the mounted component without the button
handleCompareInvoked ==
  /\ mounted
  /\ handleCompareCalled

(***************************************************************************)
(* DashboardRefactored: the selection after each of its handlers, as       *)
(* <<year, event, session, driver 1, driver 2>>.                           *)
(***************************************************************************)
Refactored_handleYearChange(year) == <<year, "", "", "", "">>

Refactored_handleEventChange(eventName) ==
  <<selectedYear, eventName, "", "", "">>

\* mutant: the selected drivers are kept
Refactored_handleSessionChange_Mut(sessionType) ==
  <<selectedYear, selectedEvent, sessionType, selectedDriver1, selectedDriver2>>

Refactored_handleSessionChange(sessionType) ==
  <<selectedYear, selectedEvent, sessionType, "", "">>

(***************************************************************************)
(* Dashboard: the continuations after the await.                           *)
(***************************************************************************)
\* mutant: handleCompare has no finally block
finally_Mut(kind) ==
  /\ loadingSeasons' = IF kind = "seasons" THEN FALSE ELSE loadingSeasons
  /\ loadingEvents' = IF kind = "events" THEN FALSE ELSE loadingEvents
  /\ loadingSessions' = IF kind = "sessions" THEN FALSE ELSE loadingSessions
  /\ loadingDrivers' = IF kind = "drivers" THEN FALSE ELSE loadingDrivers
  /\ loadingTelemetry' = loadingTelemetry

\* the finally block of the load function of this kind of request
finally(kind) ==
  /\ loadingSeasons' = IF kind = "seasons" THEN FALSE ELSE loadingSeasons
  /\ loadingEvents' = IF kind = "events" THEN FALSE ELSE loadingEvents
  /\ loadingSessions' = IF kind = "sessions" THEN FALSE ELSE loadingSessions
  /\ loadingDrivers' = IF kind = "drivers" THEN FALSE ELSE loadingDrivers
  /\ loadingTelemetry' = IF kind = "compare" THEN FALSE ELSE loadingTelemetry

\* the response arrives: the try block continues, then finally
RequestSucceeds(i) ==
  LET r == inflight[i]
  IN  /\ r # Free
      /\ inflight' = [inflight EXCEPT ![i] = Free]
      /\ seasons' = IF r.kind = "seasons" THEN ServerSeasons ELSE seasons
      /\ events' = IF r.kind = "events" THEN ServerEvents(r.year) ELSE events
      /\ sessions' = IF r.kind = "sessions"
                     THEN ServerSessions(r.year, r.event) ELSE sessions
      /\ drivers' = IF r.kind = "drivers"
                    THEN ServerDrivers(r.year, r.event, r.session) ELSE drivers
      /\ telemetryData' = IF r.kind = "compare"
                          THEN ServerComparison(r) ELSE telemetryData
      /\ finally(r.kind)
      /\ UNCHANGED <<selectionVars, error, mounted, engineVars, form>>

\* mutant: a failed request is sent again until it has been tried three times
handleApiError_Mut(message, attempts) ==
  IF attempts < 3 THEN "retry" ELSE "throw"

\* handleApiError(error): the error is always thrown on to the caller
handleApiError(message, attempts) == "throw"

\* the request is rejected with this message: handleApiError, then the catch
\* block of the load function and its finally
Rejected(i, message) ==
  LET r == inflight[i]
  IN  /\ r # Free
      /\ IF handleApiError(message, r.attempts) = "retry"
         THEN /\ inflight' = [inflight EXCEPT ![i].attempts = @ + 1]
              /\ UNCHANGED <<loadingVars, error>>
         ELSE /\ inflight' = [inflight EXCEPT ![i] = Free]
              /\ error' = IF r.kind = "seasons" THEN loadSeasonsError(message)
                          ELSE IF r.kind = "compare"
                            THEN handleCompareError(message, r.year)
                          ELSE message
              /\ finally(r.kind)
      /\ UNCHANGED <<dataVars, selectionVars, mounted, engineVars, form>>

\* the backend answers with an error, or cannot be reached
RequestFails(i, message) ==
  /\ inflight[i] # Free
  /\ message \in ServerMessages(inflight[i].kind)
  /\ Rejected(i, message)

\* apiClient's timeout elapses without a response
RequestTimesOut(i) ==
  /\ inflight[i] # Free
  /\ Rejected(i, TimeoutMessage)

InitDashboard ==
  /\ lap1 = <<>>
  /\ lap2 = <<>>
  /\ comparison = NoComparison
  /\ DashboardInitial
  /\ HooksInitial
  /\ FormInitial

\* the Dashboard page alone: the hooks are not in use
NextDashboard ==
  \/ Mount /\ UNCHANGED <<refVars, form>>
  \/ RetryConnection /\ UNCHANGED <<refVars, form>>
  \/ \E year \in Years \cup {0} : handleYearChange(year) /\ UNCHANGED <<refVars, form>>
  \/ \E eventName \in EventNames \cup {""} :
       handleEventChange(eventName) /\ UNCHANGED <<refVars, form>>
  \/ \E sessionType \in SessionTypes \cup {""} :
       handleSessionChange(sessionType) /\ UNCHANGED <<refVars, form>>
  \/ \E driver \in DriverNumbers \cup {""} :
       setSelectedDriver1(driver) /\ UNCHANGED <<refVars, form>>
  \/ \E driver \in DriverNumbers \cup {""} :
       setSelectedDriver2(driver) /\ UNCHANGED <<refVars, form>>
  \/ handleCompare /\ UNCHANGED <<refVars, form>>
  \/ \E i \in Slots : RequestSucceeds(i) /\ UNCHANGED <<refVars, form>>
  \/ \E i \in Slots, message \in Messages :
       RequestFails(i, message) /\ UNCHANGED <<refVars, form>>
  \/ \E i \in Slots : RequestTimesOut(i) /\ UNCHANGED <<refVars, form>>

SpecDashboard == InitDashboard /\ [][NextDashboard]_vars

\* the Dashboard with its handleCompare callable in every state
NextDashboardCalls ==
  \/ NextDashboard
  \/ handleCompareInvoked /\ UNCHANGED <<refVars, form>>

SpecDashboardCalls == InitDashboard /\ [][NextDashboardCalls]_vars

\* apiClient's timer runs for every request that is awaited
SpecDashboardFair ==
  SpecDashboard
    /\ \A i \in Slots : WF_vars(RequestTimesOut(i) /\ UNCHANGED <<refVars, form>>)

(***************************************************************************)
(* useF1Data: the hooks.  Each hook holds its own data, loading and error  *)
(* state; a load function is an action up to its await and a continuation  *)
(* after it.  The operators below change the state of the hooks only.      *)
(***************************************************************************)
\* what the backend answers to a request
Response(r) ==
  CASE r.kind = "seasons" -> ServerSeasons
    [] r.kind = "events" -> ServerEvents(r.year)
    [] r.kind = "sessions" -> ServerSessions(r.year, r.event)
    [] r.kind = "drivers" -> ServerDrivers(r.year, r.event, r.session)
    [] r.kind = "compare" -> ServerComparison(r)

\* the message the catch block of useSeasons.loadSeasons sets
useSeasonsError(errorMessage) ==
  IF includes(errorMessage, "Network Error")
       \/ includes(errorMessage, "ERR_CONNECTION_REFUSED")
  THEN BackendStarting
  ELSE errorMessage

\* the message the catch block of compareTelemetry sets; year is params.year
compareTelemetryError(errorMessage, year) ==
  IF includes(errorMessage, "not been loaded")
       \/ includes(errorMessage, "Session.load")
  THEN IF year < 2011
         THEN "Telemetry data is not available for year (before 2011)"
       ELSE IF year < 2018
         THEN "Telemetry data is not available for this session (2011-2017)"
       ELSE "Telemetry data could not be loaded for this session"
  ELSE IF includes(errorMessage, "No telemetry data")
  THEN IF year < 2011
         THEN "No telemetry data available for year (before 2011)"
       ELSE IF year < 2018
         THEN "Limited or no telemetry data for year (2011-2017)"
       ELSE "No telemetry data available. This session may not have telemetry"
  ELSE IF includes(errorMessage, "No laps found")
  THEN "No laps found for driver. This driver may not have participated"
  ELSE errorMessage

\* the error a hook holds after its request was rejected with this message
hookCatch(r, errorMessage) ==
  CASE r.kind = "seasons" -> useSeasonsError(errorMessage)
    [] r.kind = "compare" -> compareTelemetryError(errorMessage, r.year)
    [] OTHER -> errorMessage

\* mutant: a load keeps the list it held
hookLoad_Mut(kind) ==
  /\ hookLoading' = [hookLoading EXCEPT ![kind] = TRUE]
  /\ hookError' = [hookError EXCEPT ![kind] = NULL]
  /\ hookData' = hookData

\* the load function of a hook, up to its await: setLoading(true),
\* setError(null) and, in every hook but useSeasons, the data is cleared
hookLoad(kind) ==
  /\ hookLoading' = [hookLoading EXCEPT ![kind] = TRUE]
  /\ hookError' = [hookError EXCEPT ![kind] = NULL]
  /\ hookData' = IF kind = "seasons" THEN hookData
                 ELSE [hookData EXCEPT ![kind] = HookEmpty(kind)]

\* the response of request r arrives: the try block continues, then finally
hookResolves(r) ==
  /\ hookData' = [hookData EXCEPT ![r.kind] = Response(r)]
  /\ hookLoading' = [hookLoading EXCEPT ![r.kind] = FALSE]
  /\ UNCHANGED hookError

\* request r is rejected: the catch block, then finally
hookRejects(r, errorMessage) ==
  /\ hookError' = [hookError EXCEPT ![r.kind] = hookCatch(r, errorMessage)]
  /\ hookLoading' = [hookLoading EXCEPT ![r.kind] = FALSE]
  /\ UNCHANGED hookData

\* useTelemetryComparison.reset()
reset ==
  /\ hookData' = [hookData EXCEPT !["compare"] = NoComparison]
  /\ hookError' = [hookError EXCEPT !["compare"] = NULL]
  /\ hookLoading' = [hookLoading EXCEPT !["compare"] = FALSE]

(***************************************************************************)
(* A component that uses one hook of useF1Data and calls what the hook     *)
(* returns, in any order and with any arguments.  The hooks share no       *)
(* state, so one hook is followed at a time: another hook is called only   *)
(* while the others are in their initial state.                            *)
(***************************************************************************)
\* a request of a hook; alone is history: no other request of the hook has
\* been awaited together with this one
HookRequest(kind, year, event, session, driver1, driver2, alone) ==
  [kind |-> kind, year |-> year, event |-> event, session |-> session,
   driver1 |-> driver1, driver2 |-> driver2, attempts |-> 1, alone |-> alone]

\* no other hook than this one has been used
OnlyHook(kind) ==
  \A k \in Kinds \ {kind} :
    /\ hookData[k] = HookEmpty(k) /\ ~hookLoading[k] /\ hookError[k] = NULL
    /\ \A i \in Slots : inflight[i].kind # k

\* the load function of the hook is called with these arguments
HookCall(kind, year, event, session, driver1, driver2) ==
  /\ FreeSlot # 0
  /\ hookLoad(kind)
  /\ inflight' =
       [i \in Slots |->
          IF i = FreeSlot
          THEN HookRequest(kind, year, event, session, driver1, driver2,
                           \A j \in Slots : inflight[j].kind # kind)
          ELSE IF inflight[i].kind = kind
          THEN [inflight[i] EXCEPT !.alone = FALSE]
          ELSE inflight[i]]
  /\ lastAction' = "call"
  /\ UNCHANGED <<dataVars, selectionVars, loadingVars, error, mounted,
                 displayError, engineVars, form>>

\* useSeasons: the mount effect, or refetch()
useSeasons_loadSeasons ==
  /\ OnlyHook("seasons")
  /\ HookCall("seasons", 0, "", "", "", "")

\* useEvents: the [year] effect, or refetch(selectedYear)
useEvents_loadEvents(year) ==
  /\ OnlyHook("events")
  /\ HookCall("events", year, "", "", "", "")

\* useSessions: the [year, event] effect, or refetch(...)
useSessions_loadSessions(year, event) ==
  /\ OnlyHook("sessions")
  /\ HookCall("sessions", year, event, "", "", "")

\* useDrivers: the [year, event, sessionType] effect, or refetch(...)
useDrivers_loadDrivers(year, event, session) ==
  /\ OnlyHook("drivers")
  /\ HookCall("drivers", year, event, session, "", "")

\* useTelemetryComparison: compareTelemetry(params)
useTelemetryComparison_compareTelemetry(year, event, session, driver1, driver2) ==
  /\ OnlyHook("compare")
  /\ HookCall("compare", year, event, session, driver1, driver2)

\* useTelemetryComparison: reset()
useTelemetryComparison_reset ==
  /\ OnlyHook("compare")
  /\ reset
  /\ lastAction' = "reset"
  /\ UNCHANGED <<dataVars, selectionVars, loadingVars, error, mounted, inflight,
                 displayError, engineVars, form>>

\* the response of the request in slot i arrives
HookRequestSucceeds(i) ==
  /\ inflight[i] # Free
  /\ hookResolves(inflight[i])
  /\ inflight' = [inflight EXCEPT ![i] = Free]
  /\ UNCHANGED <<dataVars, selectionVars, loadingVars, error, mounted,
                 displayError, lastAction, engineVars, form>>

\* the request in slot i is rejected with this message
HookRequestRejected(i, message) ==
  /\ inflight[i] # Free
  /\ hookRejects(inflight[i], message)
  /\ inflight' = [inflight EXCEPT ![i] = Free]
  /\ UNCHANGED <<dataVars, selectionVars, loadingVars, error, mounted,
                 displayError, lastAction, engineVars, form>>

\* the backend answers with an error, or cannot be reached
HookRequestFails(i, message) ==
  /\ inflight[i] # Free
  /\ message \in ServerMessages(inflight[i].kind)
  /\ HookRequestRejected(i, message)

\* apiClient's timeout elapses without a response
HookRequestTimesOut(i) ==
  /\ inflight[i] # Free
  /\ HookRequestRejected(i, TimeoutMessage)

InitHooks ==
  /\ lap1 = <<>>
  /\ lap2 = <<>>
  /\ comparison = NoComparison
  /\ DashboardInitial
  /\ HooksInitial
  /\ FormInitial

NextHooks ==
  \/ useSeasons_loadSeasons
  \/ \E year \in Years : useEvents_loadEvents(year)
  \/ \E year \in Years, event \in EventNames :
       useSessions_loadSessions(year, event)
  \/ \E year \in Years, event \in EventNames, session \in SessionTypes :
       useDrivers_loadDrivers(year, event, session)
  \/ \E year \in Years, event \in EventNames, session \in SessionTypes,
        driver1 \in DriverNumbers, driver2 \in DriverNumbers :
       useTelemetryComparison_compareTelemetry(year, event, session,
                                                driver1, driver2)
  \/ useTelemetryComparison_reset
  \/ \E i \in Slots : HookRequestSucceeds(i)
  \/ \E i \in Slots, message \in Messages : HookRequestFails(i, message)
  \/ \E i \in Slots : HookRequestTimesOut(i)

SpecHooks == InitHooks /\ [][NextHooks]_vars

(***************************************************************************)
(* DashboardRefactored: the page on top of the hooks.  Its selection       *)
(* handlers make the assignments of Dashboard's to the five selections     *)
(* and its requests are those of Dashboard, so the operators below give    *)
(* what a step does to the hooks and to displayError; selection and        *)
(* requests are the shared ones.                                           *)
(***************************************************************************)
\* errors.find(err => err !== null) || null, over seasonsError, eventsError,
\* sessionsError, driversError, telemetryError in this order
firstError(errors) ==
  IF errors["seasons"] # NULL THEN errors["seasons"]
  ELSE IF errors["events"] # NULL THEN errors["events"]
  ELSE IF errors["sessions"] # NULL THEN errors["sessions"]
  ELSE IF errors["drivers"] # NULL THEN errors["drivers"]
  ELSE errors["compare"]

\* the effect on the five errors: it runs when one of them has changed, and
\* otherwise displayError keeps what the handler has put in it
consolidate(shown) ==
  displayError' = IF hookError' # hookError THEN firstError(hookError')
                  ELSE shown

\* SelectionPanel is rendered by DashboardRefactored
DR_PanelShown ==
  ~hookLoading["seasons"] \/ hookData["seasons"] # {} \/ displayError # NULL

\* the first render: useSeasons' effect calls loadSeasons, the effect on the
\* errors runs
DR_Mount ==
  /\ hookLoad("seasons")
  /\ displayError' = firstError(hookError')
  /\ UNCHANGED lastAction

\* the Retry Connection button: refetchSeasons
DR_RetryConnection ==
  /\ displayError = BackendStarting
  /\ hookLoad("seasons")
  /\ consolidate(displayError)
  /\ lastAction' = "other"

\* handleYearChange(year), then useEvents' effect
DR_handleYearChange(year) ==
  /\ DR_PanelShown /\ ~hookLoading["seasons"]
  /\ year \in hookData["seasons"] \cup {0}
  /\ IF year # 0 THEN hookLoad("events") ELSE UNCHANGED hookVars
  /\ consolidate(yearNote(year))
  /\ lastAction' = IF yearNote(year) # NULL THEN "note" ELSE "other"

DR_eventOptions ==
  IF hookLoading["events"] THEN {}
  ELSE {e.event_name : e \in hookData["events"]}

\* handleEventChange(eventName), then useSessions' effect
DR_handleEventChange(eventName) ==
  /\ DR_PanelShown
  /\ eventName \in DR_eventOptions \cup {""}
  /\ IF selectedYear # 0 /\ eventName # ""
     THEN hookLoad("sessions") ELSE UNCHANGED hookVars
  /\ consolidate(displayError)
  /\ lastAction' = "other"

DR_sessionOptions ==
  IF hookLoading["sessions"] THEN {}
  ELSE {x.session_type : x \in hookData["sessions"]}

\* handleSessionChange(sessionType), then useDrivers' effect
DR_handleSessionChange(sessionType) ==
  /\ DR_PanelShown
  /\ sessionType \in DR_sessionOptions \cup {""}
  /\ IF selectedYear # 0 /\ selectedEvent # "" /\ sessionType # ""
     THEN hookLoad("drivers") ELSE UNCHANGED hookVars
  /\ consolidate(displayError)
  /\ lastAction' = "other"

DR_driverOptions(other) ==
  IF hookLoading["drivers"] THEN {}
  ELSE {x.driver_number : x \in hookData["drivers"]} \ {other}

\* onDriver1Change = setSelectedDriver1, onDriver2Change = setSelectedDriver2
DR_setSelectedDriver(driver, other) ==
  /\ DR_PanelShown
  /\ driver \in DR_driverOptions(other) \cup {""}
  /\ UNCHANGED <<hookVars, displayError>>
  /\ lastAction' = "other"

\* handleCompare(), up to the await in compareTelemetry
DR_handleCompare ==
  /\ DR_PanelShown
  /\ IF selectedYear = 0 \/ selectedEvent = "" \/ selectedSession = ""
          \/ selectedDriver1 = "" \/ selectedDriver2 = ""
     THEN /\ displayError' = SelectAllOptions
          /\ UNCHANGED hookVars
     ELSE /\ hookLoad("compare")
          /\ consolidate(displayError)
  /\ lastAction' = "other"

\* the response of the request in slot i arrives
DR_RequestSucceeds(i) ==
  /\ hookResolves(inflight[i])
  /\ consolidate(displayError)
  /\ UNCHANGED lastAction

\* the request in slot i is rejected with this message
DR_Rejected(i, message) ==
  /\ hookRejects(inflight[i], message)
  /\ consolidate(displayError)
  /\ UNCHANGED lastAction

(***************************************************************************)
(* Dashboard and DashboardRefactored side by side: both pages are given    *)
(* the same selections, compare clicks and API responses.  A step is one   *)
(* input, taken by both; an input is given when both pages offer it.       *)
(***************************************************************************)
Both_Mount == Mount /\ DR_Mount

Both_RetryConnection == RetryConnection /\ DR_RetryConnection

Both_handleYearChange(year) ==
  handleYearChange(year) /\ DR_handleYearChange(year)

Both_handleEventChange(eventName) ==
  handleEventChange(eventName) /\ DR_handleEventChange(eventName)

Both_handleSessionChange(sessionType) ==
  handleSessionChange(sessionType) /\ DR_handleSessionChange(sessionType)

Both_setSelectedDriver1(driver) ==
  setSelectedDriver1(driver) /\ DR_setSelectedDriver(driver, selectedDriver2)

Both_setSelectedDriver2(driver) ==
  setSelectedDriver2(driver) /\ DR_setSelectedDriver(driver, selectedDriver1)

Both_handleCompare == handleCompare /\ DR_handleCompare

Both_RequestSucceeds(i) == RequestSucceeds(i) /\ DR_RequestSucceeds(i)

Both_RequestFails(i, message) ==
  RequestFails(i, message) /\ DR_Rejected(i, message)

Both_RequestTimesOut(i) ==
  RequestTimesOut(i) /\ DR_Rejected(i, TimeoutMessage)

\* the failures given to both pages: one whose message the catch blocks
\* pass on and one whose message they rewrite
BothMessages == {NetworkError, NoLaps}

InitBoth ==
  /\ lap1 = <<>>
  /\ lap2 = <<>>
  /\ comparison = NoComparison
  /\ DashboardInitial
  /\ HooksInitial
  /\ FormInitial

NextBoth ==
  \/ Both_Mount
  \/ Both_RetryConnection
  \/ \E year \in Years \cup {0} : Both_handleYearChange(year)
  \/ \E eventName \in EventNames \cup {""} : Both_handleEventChange(eventName)
  \/ \E sessionType \in SessionTypes \cup {""} :
       Both_handleSessionChange(sessionType)
  \/ \E driver \in DriverNumbers \cup {""} : Both_setSelectedDriver1(driver)
  \/ \E driver \in DriverNumbers \cup {""} : Both_setSelectedDriver2(driver)
  \/ Both_handleCompare
  \/ \E i \in Slots : Both_RequestSucceeds(i)
  \/ \E i \in Slots, message \in BothMessages : Both_RequestFails(i, message)
  \/ \E i \in Slots : Both_RequestTimesOut(i)

SpecBoth == InitBoth /\ [][NextBoth]_vars

(***************************************************************************)
(* RaceSelectionForm.  A list the API returns is a sequence; the responses *)
(* are drawn from the lists of at most MaxListLen distinct items.          *)
(***************************************************************************)
MaxListLen == 2

FormYears == {2023, 2024}
\* the races of a year, by round number
FormRaces ==
  {[round_number |-> 1, event_name |-> "Bahrain"],
   [round_number |-> 2, event_name |-> "Monza"]}
FormSessions == {[session_type |-> "Qualifying"], [session_type |-> "Race"]}

\* the sequences of at most MaxListLen distinct items of a set
ListsOf(S) ==
  UNION {{list \in [1..n -> S] : \A i, j \in 1..n : i # j => list[i] # list[j]} :
           n \in 0..MaxListLen}

\* setSelectedYear(data[data.length - 1])
defaultYear(data) == data[Len(data)]

\* setSelectedGpName(data[data.length - 1].event_name)
defaultGpName(data) == data[Len(data)].event_name

\* mutant: the first session returned is selected
defaultSessionType_Mut(data) == data[1].session_type

\* data.find(s => s.session_type === 'Race'), else data[0]
defaultSessionType(data) ==
  IF \E i \in 1..Len(data) : data[i].session_type = "Race"
  THEN "Race"
  ELSE data[1].session_type

RECURSIVE SendAll(_, _)
\* the requests of a sequence put into the lowest free slots, in order
SendAll(slots, requests) ==
  IF requests = <<>> THEN slots
  ELSE LET i == CHOOSE k \in Slots :
                  slots[k] = Free /\ \A j \in 1..(k - 1) : slots[j] # Free
       IN  SendAll([slots EXCEPT ![i] = Head(requests)], Tail(requests))

FreeSlots == Cardinality({i \in Slots : inflight[i] = Free})

\* the effects that run after a render in which the selection went from
\* <<year, gpName>> to <<newYear, newGpName>>: fetchRaces when the year has
\* changed and is set, fetchSessions when year or race has changed and both
\* are set
formEffects(year, gpName, newYear, newGpName) ==
  (IF newYear # year /\ newYear # 0
   THEN <<Request("races", newYear, "", "", "", "")>> ELSE <<>>)
  \o (IF (newYear # year \/ newGpName # gpName) /\ newYear # 0 /\ newGpName # ""
      THEN <<Request("sessions", newYear, newGpName, "", "", "")>> ELSE <<>>)

\* the form goes to this state and the effects of the render run
FormStep(newForm) ==
  LET requests == formEffects(form.selectedYear, form.selectedGpName,
                              newForm.selectedYear, newForm.selectedGpName)
  IN  /\ Len(requests) <= FreeSlots
      /\ form' = newForm
      /\ inflight' = SendAll(inflight, requests)
      /\ UNCHANGED <<dataVars, selectionVars, loadingVars, error, refVars,
                     engineVars>>

\* the first render: fetchSeasons()
FormMount ==
  /\ ~mounted
  /\ mounted' = TRUE
  /\ inflight' = SendAll(inflight, <<Request("seasons", 0, "", "", "", "")>>)
  /\ UNCHANGED <<form, dataVars, selectionVars, loadingVars, error, refVars,
                 engineVars>>

\* fetchSeasons after the await: the response is data
fetchSeasonsResolved(i, data) ==
  /\ inflight[i] # Free /\ inflight[i].kind = "seasons"
  /\ UNCHANGED mounted
  /\ LET settled == [inflight EXCEPT ![i] = Free]
         newForm == [form EXCEPT
                       !.seasons = data,
                       !.selectedYear =
                          IF Len(data) > 0 THEN defaultYear(data) ELSE @]
         requests == formEffects(form.selectedYear, form.selectedGpName,
                                 newForm.selectedYear, newForm.selectedGpName)
     IN  /\ Len(requests) <= FreeSlots + 1
         /\ form' = newForm
         /\ inflight' = SendAll(settled, requests)
  /\ UNCHANGED <<dataVars, selectionVars, loadingVars, error, refVars,
                 engineVars>>

\* fetchRaces after the await: the response is data
fetchRacesResolved(i, data) ==
  /\ inflight[i] # Free /\ inflight[i].kind = "races"
  /\ UNCHANGED mounted
  /\ LET settled == [inflight EXCEPT ![i] = Free]
         newForm == [form EXCEPT
                       !.races = data,
                       !.selectedGpName =
                          IF Len(data) > 0 THEN defaultGpName(data) ELSE @]
         requests == formEffects(form.selectedYear, form.selectedGpName,
                                 newForm.selectedYear, newForm.selectedGpName)
     IN  /\ Len(requests) <= FreeSlots + 1
         /\ form' = newForm
         /\ inflight' = SendAll(settled, requests)
  /\ UNCHANGED <<dataVars, selectionVars, loadingVars, error, refVars,
                 engineVars>>

\* fetchSessions after the await: the response is data
fetchSessionsResolved(i, data) ==
  /\ inflight[i] # Free /\ inflight[i].kind = "sessions"
  /\ form' = [form EXCEPT
                !.sessions = data,
                !.selectedSessionType =
                   IF Len(data) > 0 THEN defaultSessionType(data) ELSE @]
  /\ inflight' = [inflight EXCEPT ![i] = Free]
  /\ UNCHANGED <<mounted, dataVars, selectionVars, loadingVars, error, refVars,
                 engineVars>>

\* the request is rejected: the catch block logs the error
fetchRejected(i) ==
  /\ inflight[i] # Free
  /\ inflight' = [inflight EXCEPT ![i] = Free]
  /\ UNCHANGED <<form, mounted, dataVars, selectionVars, loadingVars, error,
                 refVars, engineVars>>

\* the entries of a list
Items(list) == {list[i] : i \in 1..Len(list)}

\* handleYearChange: Number(event.target.value), 0 for the placeholder
Form_handleYearChange(year) ==
  /\ mounted
  /\ year \in Items(form.seasons) \cup {0}
  /\ year # form.selectedYear
  /\ UNCHANGED mounted
  /\ FormStep([form EXCEPT !.selectedYear = year, !.selectedGpName = "",
                           !.sessions = <<>>, !.selectedSessionType = ""])

\* handleGpNameChange
Form_handleGpNameChange(gpName) ==
  /\ mounted
  /\ form.selectedYear # 0
  /\ gpName \in {race.event_name : race \in Items(form.races)} \cup {""}
  /\ gpName # form.selectedGpName
  /\ UNCHANGED mounted
  /\ FormStep([form EXCEPT !.selectedGpName = gpName, !.sessions = <<>>,
                           !.selectedSessionType = ""])

\* handleSessionTypeChange
Form_handleSessionTypeChange(sessionType) ==
  /\ mounted
  /\ form.selectedGpName # ""
  /\ sessionType
       \in {session.session_type : session \in Items(form.sessions)} \cup {""}
  /\ sessionType # form.selectedSessionType
  /\ UNCHANGED mounted
  /\ FormStep([form EXCEPT !.selectedSessionType = sessionType])

InitForm ==
  /\ lap1 = <<>>
  /\ lap2 = <<>>
  /\ comparison = NoComparison
  /\ DashboardInitial
  /\ HooksInitial
  /\ FormInitial

NextForm ==
  \/ FormMount
  \/ \E i \in Slots, data \in ListsOf(FormYears) : fetchSeasonsResolved(i, data)
  \/ \E i \in Slots, data \in ListsOf(FormRaces) : fetchRacesResolved(i, data)
  \/ \E i \in Slots, data \in ListsOf(FormSessions) :
       fetchSessionsResolved(i, data)
  \/ \E i \in Slots : fetchRejected(i)
  \/ \E year \in FormYears \cup {0} : Form_handleYearChange(year)
  \/ \E gpName \in {"Bahrain", "Monza", ""} : Form_handleGpNameChange(gpName)
  \/ \E sessionType \in {"Qualifying", "Race", ""} :
       Form_handleSessionTypeChange(sessionType)

SpecForm == InitForm /\ [][NextForm]_vars

(***************************************************************************)
(* Claims about the Dashboard's requests (SpecDashboard).                  *)
(***************************************************************************)
Awaited(i) == inflight[i] # Free
IsCompare(i) == Awaited(i) /\ inflight[i].kind = "compare"

\* C5: after a compare request fails the caller holds an error and no
\* comparison data: every step in which a compare request is rejected leaves
\* error set and telemetryData empty, whatever was held before.
C5_FailureHoldsNoData ==
  [][\A i \in Slots, message \in Messages \cup {TimeoutMessage} :
       (IsCompare(i) /\ Rejected(i, message))
         => (error' # NULL /\ telemetryData' = NoComparison)]_vars

\* C6: overlapping compare requests do not alter each other's outcome: as
\* long as a compare request is awaited, its loading status is up and no
\* data of another request is held for it.
C6_CompareRequestsIsolated ==
  \A i \in Slots :
    IsCompare(i) => (loadingTelemetry /\ telemetryData = NoComparison)

\* the request carries a complete session key
HasSessionKey(i) ==
  /\ Awaited(i)
  /\ inflight[i].year # 0 /\ inflight[i].event # "" /\ inflight[i].session # ""

\* C7: fetches of session data are single-flight per key: no two requests
\* awaited together carry the same year, event and session.
C7_SingleFlightPerKey ==
  \A i, j \in Slots :
    (i # j /\ HasSessionKey(i) /\ HasSessionKey(j))
      => <<inflight[i].year, inflight[i].event, inflight[i].session>>
           # <<inflight[j].year, inflight[j].event, inflight[j].session>>

\* C8: a failed request is retried at most once and only after a timeout;
\* any other failure is surfaced as an error without a retry; a request whose
\* timeout elapses is retried or ends in the timeout error, and no request
\* stays awaited forever.
C8_RetryOnlyOnceOnTimeout ==
  /\ [](\A i \in Slots : Awaited(i) => inflight[i].attempts <= 2)
  /\ [][\A i \in Slots :
          (Awaited(i) /\ inflight'[i] # Free
             /\ inflight'[i].attempts > inflight[i].attempts)
            => RequestTimesOut(i)]_vars
  /\ [][\A i \in Slots, message \in Messages :
          RequestFails(i, message) => (inflight'[i] = Free /\ error' # NULL)]_vars
  /\ [][\A i \in Slots :
          RequestTimesOut(i)
            => \/ inflight'[i] # Free
               \/ error' = TimeoutMessage]_vars
  /\ \A i \in Slots : Awaited(i) ~> ~Awaited(i)

\* a compare request timed out: its error is held and nothing is awaited
C8_Witness ==
  /\ error = TimeoutMessage
  /\ canCompare
  /\ ~loadingTelemetry
  /\ \A i \in Slots : ~Awaited(i)

\* all five selections hold a value the lists offer
AllSelected ==
  /\ selectedYear \in Years
  /\ selectedEvent \in EventNames
  /\ selectedSession \in SessionTypes
  /\ selectedDriver1 \in DriverNumbers
  /\ selectedDriver2 \in DriverNumbers

\* C14: the Compare Telemetry button is there and enabled if and only if a
\* year, an event, a session, driver 1 and driver 2 are all selected.
C14_CompareButton ==
  /\ canCompare <=> AllSelected
  /\ AllSelected => PanelShown

C14_Witness ==
  /\ canCompare
  /\ selectedDriver1 = "44" /\ selectedDriver2 = "33"
  /\ error = NULL
  /\ \A i \in Slots : ~Awaited(i)

\* C17: cascading reset: handleYearChange sets the year and clears event,
\* session and both drivers; handleEventChange sets the event, clears
\* session and both drivers and keeps the year; handleSessionChange sets the
\* session, clears both drivers and keeps year and event; the handlers of
\* DashboardRefactored give the same selection.
C17_CascadingReset ==
  [][/\ \A year \in Years \cup {0} :
          handleYearChange(year)
            => /\ selectionVars' = <<year, "", "", "", "">>
               /\ selectionVars' = Refactored_handleYearChange(year)
     /\ \A eventName \in EventNames \cup {""} :
          handleEventChange(eventName)
            => /\ selectionVars' = <<selectedYear, eventName, "", "", "">>
               /\ selectionVars' = Refactored_handleEventChange(eventName)
     /\ \A sessionType \in SessionTypes \cup {""} :
          handleSessionChange(sessionType)
            => /\ selectionVars'
                    = <<selectedYear, selectedEvent, sessionType, "", "">>
               /\ selectionVars' = Refactored_handleSessionChange(sessionType)
    ]_vars

\* the session was set back to the placeholder after its drivers had been
\* loaded: the driver selection is gone, year and event are kept
C17_Witness ==
  /\ selectedYear = 2020 /\ selectedEvent = "Monza" /\ selectedSession = ""
  /\ selectedDriver1 = "" /\ selectedDriver2 = ""
  /\ drivers = ServerDrivers(2020, "Monza", "R")
  /\ \A i \in Slots : ~Awaited(i)

\* C18: selection hierarchy: a selected driver implies a selected session, a
\* selected session implies a selected event, a selected event implies a
\* selected year.
C18_SelectionHierarchy ==
  /\ (selectedDriver1 # "" \/ selectedDriver2 # "") => selectedSession # ""
  /\ selectedSession # "" => selectedEvent # ""
  /\ selectedEvent # "" => selectedYear # 0

\* a full selection was made and the year was then set back to the
\* placeholder
C18_Witness ==
  /\ selectedYear = 0 /\ selectedEvent = ""
  /\ selectedSession = "" /\ selectedDriver1 = "" /\ selectedDriver2 = ""
  /\ telemetryData # NoComparison

\* C19: driver 1 and driver 2 are never the same driver, in the selection and
\* in every compare request sent.
C19_DistinctDrivers ==
  /\ (selectedDriver1 # "" /\ selectedDriver2 # "")
       => selectedDriver1 # selectedDriver2
  /\ \A i \in Slots : IsCompare(i) => inflight[i].driver1 # inflight[i].driver2

C19_Witness ==
  /\ selectedDriver1 = "33" /\ selectedDriver2 = "44"
  /\ IsCompare(1)
  /\ inflight[1].driver1 = "33" /\ inflight[1].driver2 = "44"

AllSettled == \A i \in Slots : ~Awaited(i)

\* C15: once every request has settled and no failure is held, the events
\* list is the one of the selected year, the sessions list the one of the
\* selected event and the drivers list the one of the selected session, in
\* whatever order overlapping responses arrived.
C15_ListsMatchSelection ==
  (AllSettled /\ error = NULL) =>
    /\ selectedYear # 0 => events = ServerEvents(selectedYear)
    /\ selectedEvent # ""
         => sessions = ServerSessions(selectedYear, selectedEvent)
    /\ selectedSession # ""
         => drivers = ServerDrivers(selectedYear, selectedEvent, selectedSession)

\* the loading flag of a kind of request
loadingOf(kind) ==
  CASE kind = "seasons" -> loadingSeasons
    [] kind = "events" -> loadingEvents
    [] kind = "sessions" -> loadingSessions
    [] kind = "drivers" -> loadingDrivers
    [] kind = "compare" -> loadingTelemetry

\* C16: whenever a request of a kind is awaited, the loading flag of that
\* kind is true, also when another request of the kind has completed.
C16_LoadingWhileInFlight ==
  \A i \in Slots : Awaited(i) => loadingOf(inflight[i].kind)

\* C20: the comparison held always belongs to the current selection: it is
\* the response of a compare request for the selected year, event and
\* session.
C20_ComparisonOfSelection ==
  telemetryData # NoComparison =>
    /\ telemetryData.year = selectedYear
    /\ telemetryData.event = selectedEvent
    /\ telemetryData.session = selectedSession

(***************************************************************************)
(* Claims about what the Dashboard displays (SpecDashboard).               *)
(***************************************************************************)
\* C21: an error message and telemetry charts are never held at the same
\* time: error and telemetryData are not both set.
C21_ErrorExcludesCharts ==
  ~(error # NULL /\ telemetryData # NoComparison)

\* C22: handleCompare called while any of year, event, session, driver 1 or
\* driver 2 is not selected sets the error to 'Please select all options
\* before comparing', sends no request and leaves telemetryData and
\* loadingTelemetry unchanged.
C22_CompareGuard ==
  [][(handleCompareCalled /\ ~AllSelected)
       => /\ error' = SelectAllOptions
          /\ inflight' = inflight
          /\ telemetryData' = telemetryData
          /\ loadingTelemetry' = loadingTelemetry]_vars

\* the guard has fired while a comparison was held and a request awaited
C22_Witness ==
  /\ error = SelectAllOptions
  /\ telemetryData # NoComparison
  /\ ~AllSelected
  /\ \E i \in Slots : Awaited(i)

\* a step of the user in the selection panel
UserSelects ==
  \/ \E year \in Years \cup {0} : handleYearChange(year)
  \/ \E eventName \in EventNames \cup {""} : handleEventChange(eventName)
  \/ \E sessionType \in SessionTypes \cup {""} : handleSessionChange(sessionType)
  \/ \E driver \in DriverNumbers \cup {""} : setSelectedDriver1(driver)
  \/ \E driver \in DriverNumbers \cup {""} : setSelectedDriver2(driver)
  \/ handleCompare
  \/ RetryConnection

\* C23: after the user selects a season earlier than 2011 (resp. earlier than
\* 2018) the note that telemetry is not available (resp. may be incomplete)
\* is held in the error state, the events load started by that year change
\* does not remove it, and it stays until the user makes another selection.
C23_HistoricalNoteStays ==
  /\ [][\A year \in Years :
          handleYearChange(year) => error' = yearNote(year)]_vars
  /\ [][(error \in {NoteBefore2011, NoteBefore2018} /\ ~UserSelects)
          => error' = error]_vars

\* no loading flag is up
NothingLoading ==
  /\ ~loadingSeasons /\ ~loadingEvents /\ ~loadingSessions
  /\ ~loadingDrivers /\ ~loadingTelemetry

\* C24: every load ends its loading state: when every request has settled no
\* loading flag is up, and if each issued request eventually settles and the
\* user stops making selections, then eventually the five loading flags are
\* all false and stay false.
C24_LoadingEnds ==
  /\ [](AllSettled => NothingLoading)
  /\ (<>[][~UserSelects]_vars) => <>[]NothingLoading

\* every kind of load was started and has ended
C24_Witness ==
  /\ AllSettled /\ NothingLoading
  /\ seasons # {} /\ events # {} /\ sessions # {} /\ drivers # {}
  /\ telemetryData # NoComparison

(***************************************************************************)
(* Claims about the hooks of useF1Data (SpecHooks).                        *)
(***************************************************************************)
\* useTelemetryComparison is in its initial state
ComparisonHookInitial ==
  /\ hookData["compare"] = NoComparison
  /\ hookError["compare"] = NULL
  /\ ~hookLoading["compare"]

\* C25: useTelemetryComparison.reset() returns the hook to its initial state:
\* after reset, data is null, error is null and loading is false, and they
\* stay so until compareTelemetry is called again, even if a compare request
\* was in flight when reset was called.
C25_ResetHolds ==
  (lastAction = "reset") => ComparisonHookInitial

\* the hooks that hold a list and load it for a key
ListKinds == {"events", "sessions", "drivers"}

\* C26: for useEvents, useSessions and useDrivers: each load clears the list
\* and the error when it starts; after a load that fails with no other load
\* of the same hook overlapping it, the list is empty, error holds the
\* failure message and loading is false; after one that succeeds, the list
\* is the response, error is null and loading is false.
C26_ListHooks ==
  /\ [][\A kind \in ListKinds :
          (\E year \in Years, event \in EventNames \cup {""},
              session \in SessionTypes \cup {""} :
             OnlyHook(kind) /\ HookCall(kind, year, event, session, "", ""))
            => /\ hookData'[kind] = {}
               /\ hookError'[kind] = NULL]_vars
  /\ [][\A i \in Slots, message \in Messages \cup {TimeoutMessage} :
          (/\ HookRequestRejected(i, message)
           /\ inflight[i].kind \in ListKinds
           /\ inflight[i].alone)
            => /\ hookData'[inflight[i].kind] = {}
               /\ hookError'[inflight[i].kind] = message
               /\ ~hookLoading'[inflight[i].kind]]_vars
  /\ [][\A i \in Slots :
          (/\ HookRequestSucceeds(i)
           /\ inflight[i].kind \in ListKinds
           /\ inflight[i].alone)
            => /\ hookData'[inflight[i].kind] = Response(inflight[i])
               /\ hookError'[inflight[i].kind] = NULL
               /\ ~hookLoading'[inflight[i].kind]]_vars

\* a load of the drivers has failed on its own
C26_Witness ==
  /\ hookData["drivers"] = {}
  /\ hookError["drivers"] = NetworkError
  /\ ~hookLoading["drivers"]
  /\ \A i \in Slots : inflight[i] = Free

(***************************************************************************)
(* Claims about DashboardRefactored (SpecBoth).                            *)
(***************************************************************************)
\* C27: DashboardRefactored is a behaviour-preserving refactoring of
\* Dashboard: given the same selections, compare clicks and API responses,
\* both hold the same events, sessions, drivers, telemetry data and loading
\* flags after every step.
C27_SameBehaviour ==
  /\ events = hookData["events"]
  /\ sessions = hookData["sessions"]
  /\ drivers = hookData["drivers"]
  /\ telemetryData = hookData["compare"]
  /\ loadingSeasons = hookLoading["seasons"]
  /\ loadingEvents = hookLoading["events"]
  /\ loadingSessions = hookLoading["sessions"]
  /\ loadingDrivers = hookLoading["drivers"]
  /\ loadingTelemetry = hookLoading["compare"]

\* C28: in DashboardRefactored the displayed error is the consolidated error
\* of all sources: whenever all requests have settled, displayError is the
\* first non-null error in the order seasons, events, sessions, drivers,
\* telemetry, or null when all five are null, unless the user's last action
\* was a year change that set a historical-year note.
C28_ConsolidatedError ==
  AllSettled =>
    \/ displayError = firstError(hookError)
    \/ lastAction = "note"

(***************************************************************************)
(* Claims about RaceSelectionForm (SpecForm).                              *)
(***************************************************************************)
\* the latest season of a list: the greatest year in it
LatestSeason(data) ==
  CHOOSE year \in Items(data) : \A other \in Items(data) : other <= year

\* the latest race of a list: the one of the greatest round
LatestRace(data) ==
  CHOOSE race \in Items(data) :
    \A other \in Items(data) : other.round_number <= race.round_number

\* C29: after the seasons request returns a non-empty list, the selected year
\* is the latest (greatest) season in that list, whatever order the list is
\* returned in; likewise the race selected by default after the races load
\* is the latest race of the year.
C29_LatestByDefault ==
  /\ [][\A i \in Slots, data \in ListsOf(FormYears) :
          (fetchSeasonsResolved(i, data) /\ data # <<>>)
            => form'.selectedYear = LatestSeason(data)]_vars
  /\ [][\A i \in Slots, data \in ListsOf(FormRaces) :
          (fetchRacesResolved(i, data) /\ data # <<>>)
            => form'.selectedGpName = LatestRace(data).event_name]_vars

\* C30: after a sessions request returns a non-empty list, the selected
\* session type is 'Race' if some returned session has session_type 'Race',
\* and otherwise the session_type of the first returned session; when the
\* list is empty or the request fails the selected session type is left
\* unchanged.
C30_DefaultSession ==
  /\ [][\A i \in Slots, data \in ListsOf(FormSessions) :
          fetchSessionsResolved(i, data)
            => form'.selectedSessionType =
                 IF data = <<>> THEN form.selectedSessionType
                 ELSE IF [session_type |-> "Race"] \in Items(data) THEN "Race"
                 ELSE data[1].session_type]_vars
  /\ [][\A i \in Slots :
          fetchRejected(i)
            => form'.selectedSessionType = form.selectedSessionType]_vars

\* the sessions arrived with the race second and the race is selected while
\* the sessions of another race are awaited
C30_Witness ==
  /\ form.sessions = <<[session_type |-> "Qualifying"], [session_type |-> "Race"]>>
  /\ form.selectedSessionType = "Race"
  /\ \E i \in Slots : inflight[i] # Free /\ inflight[i].kind = "sessions"

====
